---- MODULE Spec2Model ----
(***************************************************************************)
(* A model of catgram's category parser and renderer                       *)
(* (src/catgram/category_tree.py): CategoryTree.from_str / _parse_str with *)
(* the process-wide interner INSTANCES, CategoryTree.to_str and the        *)
(* derived metrics; and of the proof-frame side                            *)
(* (src/catgram/term_graph.py): LexicalDecomposition.decompose_category    *)
(* and TermGraph with get_term.                                            *)
(*                                                                         *)
(* Strings are sequences of one-character strings, so that tokenisation,   *)
(* joining and the character slice cat_[1:-1] are computed, not assumed.   *)
(* A CategoryTree is <<root>> when atomic and <<root, result, argument>>   *)
(* when complex; root is a token (a string).  Equality of these tuples is  *)
(* the dataclass's structural equality.  The identity of an interned       *)
(* object is the key of the INSTANCES entry that holds it: the code        *)
(* allocates a fresh object for each entry it inserts                      *)
(* (INSTANCES[key] = x = cls(...)) and shares no object between entries.   *)
(***************************************************************************)
EXTENDS Integers, Sequences, FiniteSets, TLC

VARIABLES
    INSTANCES,  \* the interner: (string, lambek) -> CategoryTree
    last,       \* the latest from_str call and its outcome
    held,       \* a from_str result the caller kept
    base,       \* where in Cats the caller's strings start
    subject,    \* a CategoryTree a caller holds
    probe,      \* the latest method call on subject and its outcome
    graph,      \* a TermGraph
    term,       \* the latest get_term call on graph and its outcome
    threads     \* concurrent from_str calls in progress

parserVars == <<last, held, base>>
treeVars   == <<subject, probe>>
graphVars  == <<graph, term>>

vars ==
    <<INSTANCES, last, held, base, subject, probe, graph, term, threads>>

-----------------------------------------------------------------------------
(* Characters and strings *)

LPAREN == <<"(">>
RPAREN == <<")">>
FSLASH == <<"/">>
BSLASH == <<"\\">>

\* atom_delim = re.compile(r"([()\\/])"): the delimiter characters.
atom_delim == {"(", ")", "/", "\\"}

\* \s of atom_re, restricted to the whitespace the inputs use.
Whitespace == {" "}

\* atom_re = re.compile(r"^[^\s/\\()]+$"), used with fullmatch.
atom_re(root) ==
    /\ Len(root) > 0
    /\ \A n \in 1..Len(root) : root[n] \notin Whitespace \cup atom_delim

Min(a, b) == IF a < b THEN a ELSE b
Max(a, b) == IF a > b THEN a ELSE b

\* Python's seq[a:b] (0-based, b exclusive, negative b counted from the end,
\* both ends clipped to the sequence).
PySlice(seq, a, b) ==
    LET n  == Len(seq)
        lo == Min(Max(IF a < 0 THEN n + a ELSE a, 0), n)
        hi == Min(Max(IF b < 0 THEN n + b ELSE b, 0), n)
    IN  IF hi <= lo THEN <<>> ELSE SubSeq(seq, lo + 1, hi)

\* "".join(tokens)
RECURSIVE Join(_)
Join(tokens) ==
    IF tokens = <<>> THEN <<>> ELSE Head(tokens) \o Join(Tail(tokens))

\* atom_delim.split(cat): the pieces between delimiters (possibly empty) with
\* each delimiter kept as a piece of its own.
RECURSIVE ReSplit(_, _, _)
ReSplit(chars, cur, out) ==
    IF chars = <<>> THEN Append(out, cur)
    ELSE IF Head(chars) \in atom_delim
         THEN ReSplit(Tail(chars), <<>>, out \o <<cur, <<Head(chars)>> >>)
         ELSE ReSplit(Tail(chars), Append(cur, Head(chars)), out)

NonEmpty(a) == a # <<>>

\* tuple(a for a in cls.atom_delim.split(cat) if a)
Tokenize(cat) == SelectSeq(ReSplit(cat, <<>>, <<>>), NonEmpty)

-----------------------------------------------------------------------------
(* CategoryTree values *)

is_atomic(t) == Len(t) = 1
root_of(t) == t[1]
result_of(t) == t[2]
argument_of(t) == t[3]

\* Values a local of _parse_str holds: None, a str token, or a CategoryTree
\* object (its value v and its identity oid).
None == [k |-> "None", v |-> <<>>, oid |-> <<>>]
Str(tok) == [k |-> "str", v |-> tok, oid |-> <<>>]
Obj(tree, oid) == [k |-> "cls", v |-> tree, oid |-> oid]

MalformedCategoryError == "MalformedCategoryError"
ValueError == "ValueError"
KeyError == "KeyError"
AssertionError == "AssertionError"

\* cls(root, result, argument) with __post_init__: the tree built, or the
\* error __post_init__ raises.  root is a str token; result and argument are
\* None or CategoryTree objects, so the isinstance checks pass.
post_init(root, result, argument) ==
    IF result.k = "None"
    THEN IF argument.k # "None" THEN ValueError
         ELSE IF ~atom_re(root) THEN ValueError
         ELSE "ok"
    ELSE IF argument.k = "None" THEN ValueError
         ELSE IF root \notin {FSLASH, BSLASH} THEN ValueError
         ELSE "ok"

cls(root, result, argument) ==
    IF result.k = "None" THEN <<root>> ELSE <<root, result.v, argument.v>>

-----------------------------------------------------------------------------
(* The interner and _parse_str *)

\* The check-then-insert that _parse_str repeats at each place it needs a
\* tree for a key:
\*     if key in INSTANCES: x = INSTANCES[key]; assert x == cls(...)
\*     else:                INSTANCES[key] = x = cls(...)
\* cls(...) is evaluated on both paths, so __post_init__ may raise on both.
Intern(I, key, root, result, argument) ==
    LET chk == post_init(root, result, argument)
        new == cls(root, result, argument)
    IN  IF chk # "ok" THEN [k |-> chk, obj |-> None, I |-> I]
        ELSE IF key \in DOMAIN I
             THEN IF I[key] = new
                  THEN [k |-> "ok", obj |-> Obj(I[key], key), I |-> I]
                  ELSE [k |-> AssertionError, obj |-> None, I |-> I]
             ELSE [k |-> "ok", obj |-> Obj(new, key), I |-> (key :> new) @@ I]

\* Every node built with the left operand as the result.
BuildSteedman(I, key, lambek, root, left, right) ==
    Intern(I, key, root, left, right)

\* The child order of a complex node: with lambek and a backslash root the
\* right operand is the result and the left one the argument.
Build(I, key, lambek, root, left, right) ==
    IF lambek /\ root = BSLASH
    THEN Intern(I, key, root, right, left)
    ELSE Intern(I, key, root, left, right)

\* The same check-then-insert for the intermediate node of a left-associative
\* run.  Here the code assigns the cached tree to left before the assertion
\* builds its comparand, so the assertion compares the cached tree with a
\* node that has the cached tree as its left operand.
BuildLeft(I, key, lambek, root, left, right) ==
    IF key \in DOMAIN I
    THEN LET cached == Obj(I[key], key)
             chk == IF lambek /\ root = BSLASH
                    THEN post_init(root, right, cached)
                    ELSE post_init(root, cached, right)
             new == IF lambek /\ root = BSLASH
                    THEN cls(root, right, cached)
                    ELSE cls(root, cached, right)
         IN  IF chk # "ok" THEN [k |-> chk, obj |-> None, I |-> I]
             ELSE IF cached.v = new
             THEN [k |-> "ok", obj |-> cached, I |-> I]
             ELSE [k |-> AssertionError, obj |-> None, I |-> I]
    ELSE Build(I, key, lambek, root, left, right)

\* cat[i] in "/\\" is a substring test on the str "/\".
InSlashStr(tok) == tok \in {<<>>, FSLASH, BSLASH, FSLASH \o BSLASH}

\* The outcome of a call of _parse_str: k is "ok" or the exception raised,
\* v and oid the tree returned and its identity, i the index returned, I the
\* interner the call leaves behind, w the warnings logged so far.
Return(obj, s) ==
    [k |-> "ok", v |-> obj.v, oid |-> obj.oid, i |-> s.i, I |-> s.I, w |-> s.w]
Raise(exc, s) ==
    [k |-> exc, v |-> <<>>, oid |-> <<>>, i |-> s.i, I |-> s.I, w |-> s.w]

Warn(s, what) == [s EXCEPT !.w = Append(@, what)]

\* One pass of the loop body for a slash token: the state after it, or the
\* exception it raises (err).
SlashStep(c, s, tok) ==
    LET c_str == Join(PySlice(c.cat, c.idx, s.i))
        key   == <<c_str, c.lambek>>
    IN  IF s.root.k = "None" THEN [err |-> MalformedCategoryError, s |-> s]
        ELSE IF s.left.k = "None"
        THEN IF s.root.k = "cls"
             THEN [err |-> "", s |-> [s EXCEPT !.left = s.root, !.root = Str(tok)]]
             ELSE LET r == Intern(s.I, key, s.root.v, None, None)
                  IN  IF r.k # "ok" THEN [err |-> r.k, s |-> s]
                      ELSE [err |-> "",
                            s |-> [s EXCEPT !.left = r.obj, !.I = r.I,
                                            !.root = Str(tok)]]
        ELSE IF ~c.l_assoc \/ s.right.k = "None"
        THEN [err |-> MalformedCategoryError, s |-> s]
        ELSE LET r == BuildLeft(s.I, key, c.lambek, s.root.v, s.left, s.right)
             IN  IF r.k # "ok" THEN [err |-> r.k, s |-> s]
                 ELSE [err |-> "",
                       s |-> [s EXCEPT !.left = r.obj, !.I = r.I,
                                       !.right = None, !.root = Str(tok)]]

\* The part of the loop body for an atom or a parenthetical once p is known.
PlaceOperand(c, s, p) ==
    IF s.left.k = "None"
    THEN IF s.root.k # "None" THEN [err |-> MalformedCategoryError, s |-> s]
         ELSE IF c.l_assoc /\ p.k = "cls"
         THEN [err |-> MalformedCategoryError, s |-> s]
         ELSE [err |-> "", s |-> [s EXCEPT !.root = p]]
    ELSE IF p.k # "cls"
         THEN LET r == Intern(s.I, <<p.v, c.lambek>>, p.v, None, None)
              IN  IF r.k # "ok" THEN [err |-> r.k, s |-> s]
                  ELSE [err |-> "", s |-> [s EXCEPT !.right = r.obj, !.I = r.I]]
         ELSE [err |-> "", s |-> [s EXCEPT !.right = p]]

\* The code after the loop.
Finish(c, s) ==
    LET cat_ == Join(PySlice(c.cat, c.idx, s.i))
    IN  IF s.root.k = "None" THEN Raise(MalformedCategoryError, s)
        ELSE IF s.root.k = "cls"
        THEN LET s1  == Warn(s, "strip")
                 key == <<PySlice(cat_, 1, -1), c.lambek>>
             IN  IF key \notin DOMAIN s1.I THEN Raise(KeyError, s1)
                 ELSE IF s1.root.v # s1.I[key] THEN Raise(AssertionError, s1)
                 ELSE Return(s1.root, s1)
        ELSE IF InSlashStr(s.root.v) /\ s.right.k = "None"
        THEN Raise(MalformedCategoryError, s)
        ELSE LET r == Build(s.I, <<cat_, c.lambek>>, c.lambek, s.root.v,
                            s.left, s.right)
             IN  IF r.k # "ok" THEN Raise(r.k, s)
                 ELSE Return(r.obj, [s EXCEPT !.I = r.I])

RECURSIVE parse_str(_, _, _)
RECURSIVE ParseLoop(_, _)

\* The while loop of _parse_str from index s.i on, and what follows it.
ParseLoop(c, s) ==
    IF s.i >= Len(c.cat)
    THEN \* the loop's else clause
         IF c.in_paren
         THEN IF c.strict THEN Raise(MalformedCategoryError, s)
              ELSE Finish(c, Warn(s, "unclosed"))
         ELSE Finish(c, s)
    ELSE
    LET tok == c.cat[s.i + 1] IN
    IF tok = RPAREN
    THEN IF ~c.in_paren
         THEN IF c.strict THEN Raise(MalformedCategoryError, s)
              ELSE Finish(c, Warn(s, "extraneous"))
         ELSE Finish(c, s)
    ELSE IF s.right.k # "None" /\ (~c.l_assoc \/ ~InSlashStr(tok))
    THEN IF ~c.in_paren \/ c.strict THEN Raise(MalformedCategoryError, s)
         ELSE Finish(c, [Warn(s, "assume") EXCEPT !.i = @ - 1])
    ELSE IF InSlashStr(tok)
    THEN LET r == SlashStep(c, s, tok)
         IN  IF r.err # "" THEN Raise(r.err, r.s)
             ELSE ParseLoop(c, [r.s EXCEPT !.i = @ + 1])
    ELSE IF tok = LPAREN
    THEN LET sub == parse_str([c EXCEPT !.idx = s.i + 1, !.in_paren = TRUE],
                              s.I, s.w)
         IN  IF sub.k # "ok" THEN sub
             ELSE LET s1 == [s EXCEPT !.i = sub.i, !.I = sub.I, !.w = sub.w]
                      r  == PlaceOperand(c, s1, Obj(sub.v, sub.oid))
                  IN  IF r.err # "" THEN Raise(r.err, r.s)
                      ELSE ParseLoop(c, [r.s EXCEPT !.i = @ + 1])
    ELSE LET r == PlaceOperand(c, s, Str(tok))
         IN  IF r.err # "" THEN Raise(r.err, r.s)
             ELSE ParseLoop(c, [r.s EXCEPT !.i = @ + 1])

\* _parse_str(cat, l_assoc, lambek, strict, idx, in_paren) run on interner I;
\* c holds the arguments.
parse_str(c, I, w) ==
    ParseLoop(c, [i |-> c.idx, root |-> None, left |-> None, right |-> None,
                  I |-> I, w |-> w])

\* CategoryTree.from_str(cat, left_associative, lambek, strict) run on
\* interner I.
from_str(I, cat, left_associative, lambek, strict) ==
    LET key == <<cat, lambek>>
    IN  IF key \in DOMAIN I
        THEN [k |-> "ok", v |-> I[key], oid |-> key, i |-> 0, I |-> I, w |-> <<>>]
        ELSE parse_str([cat |-> Tokenize(cat), l_assoc |-> left_associative,
                        lambek |-> lambek, strict |-> strict, idx |-> 0,
                        in_paren |-> FALSE], I, <<>>)

-----------------------------------------------------------------------------
(* CategoryTree.to_str *)

Paren(seq) == <<LPAREN>> \o seq \o <<RPAREN>>

\* The indices left where they are.
Unshifted(idxs, offset) == idxs

Shift(idxs, offset) == [n \in 1..Len(idxs) |-> idxs[n] + offset]

\* CategoryTree._inorder(l_assoc, lambek, positive): the token sequence of
\* the rendering and, leaf by leaf, the polarized index of each atom.
RECURSIVE inorder(_, _, _, _)
inorder(t, l_assoc, lambek, positive) ==
    IF is_atomic(t) THEN [seq |-> <<root_of(t)>>, idxs |-> <<0>>]
    ELSE
    LET res  == inorder(result_of(t), l_assoc, lambek, positive)
        arg  == inorder(argument_of(t), l_assoc, lambek, ~positive)
        result   == IF ~l_assoc /\ Len(res.seq) > 1 THEN Paren(res.seq)
                    ELSE res.seq
        argument == IF Len(arg.seq) > 1 THEN Paren(arg.seq) ELSE arg.seq
        argFirst == (root_of(t) = FSLASH) = positive
        result_idxs   == IF argFirst THEN Shift(res.idxs, Len(arg.idxs))
                         ELSE res.idxs
        argument_idxs == IF argFirst THEN arg.idxs
                         ELSE Shift(arg.idxs, Len(res.idxs))
    IN  IF lambek /\ root_of(t) = BSLASH
        THEN [seq  |-> argument \o <<root_of(t)>> \o result,
              idxs |-> argument_idxs \o result_idxs]
        ELSE [seq  |-> result \o <<root_of(t)>> \o argument,
              idxs |-> result_idxs \o argument_idxs]

\* t.to_str(l_assoc=..., lambek=...) with pol_start=None.
to_str(t, l_assoc, lambek) == Join(inorder(t, l_assoc, lambek, FALSE).seq)

-----------------------------------------------------------------------------
(* The process: a caller parsing category strings one after another *)

\* The category strings the caller parses.
Cats ==
    << <<>>,
       <<"N", " ", "P">>,
       <<"N", "P">>,
       <<"(", "N", "P", ")">>,
       <<"(", "(", "N", "P", ")", ")">>,
       <<"N">>,
       <<"(", "N", "P">>,
       <<"N", "P", ")">>,
       <<"/", "/", "N", "P">>,
       <<"N", "P", "/">>,
       <<"(", "N", "P", "/", "A", "/", "B", ")">>,
       <<"A", "/", "B">>,
       <<"(", "A", "/", "B", ")">>,
       <<"A", "/", "(", "B", ")">>,
       <<"A", "/", "(", "B">>,
       <<"A", "/", "(", "B", "/", "C", ")">>,
       <<"A", "/", "B", "/", "C", ")">>,
       <<"A", "/", "B", "/", "C">>,
       <<"(", "A", "/", "B", ")", "/", "C">>,
       <<"A", "\\", "B", "\\", "C">>,
       <<"(", "A", "\\", "B", ")", "\\", "C">>,
       <<"A", "/", "B", "\\", "C">>,
       <<"(", "A", "/", "B", ")", "\\", "C">>,
       <<"A", "\\", "B", "/", "C">>,
       <<"(", "A", "\\", "B", ")", "/", "C">>,
       <<"A", "\\", "(", "B", "/", "C", ")">>,
       <<"(", "A", "/", "(", "B", ")", "C", ")">>,
       <<"A", "/", "B", ")", "/", "C">> >>

\* How many consecutive strings of Cats one run of the process draws from.
PoolSize == 2

\* INSTANCES = {} at import.
EmptyInterner == [key \in {} |-> <<>>]

NoCall ==
    [cat |-> <<>>, left_associative |-> FALSE, lambek |-> FALSE,
     strict |-> FALSE, k |-> "none", v |-> <<>>, oid |-> <<>>, w |-> <<>>]

\* What the caller observes of a call: its arguments and its outcome.
CallRecord(cat, left_associative, lambek, strict, r) ==
    [cat |-> cat, left_associative |-> left_associative, lambek |-> lambek,
     strict |-> strict, k |-> r.k, v |-> r.v, oid |-> r.oid, w |-> r.w]

\* No category held, no TermGraph built, no concurrent call running.
NoCategory == <<>>
NoProbe    == [op |-> "none"]
NoGraph    == [k |-> "none"]
NoTerm     == [k |-> "none"]
NoThreads  == <<>>

TreeIdle   == subject = NoCategory /\ probe = NoProbe
GraphIdle  == graph = NoGraph /\ term = NoTerm
ThreadIdle == threads = NoThreads

Init ==
    /\ INSTANCES = EmptyInterner
    /\ last = NoCall
    /\ held = NoCall
    /\ base \in 1..(Len(Cats) - PoolSize + 1)
    /\ TreeIdle /\ GraphIdle /\ ThreadIdle

\* One call CategoryTree.from_str(cat, left_associative, lambek, strict).  The
\* interner keeps what the call inserted, also when the call raises.  The
\* caller may keep the value returned (held) to compare with later results.
FromStr(cat, left_associative, lambek, strict, keep) ==
    LET r   == from_str(INSTANCES, cat, left_associative, lambek, strict)
        rec == CallRecord(cat, left_associative, lambek, strict, r)
    IN  /\ INSTANCES' = r.I
        /\ last' = rec
        /\ held' = IF keep /\ r.k = "ok" THEN rec ELSE held
        /\ UNCHANGED <<base, treeVars, graphVars, threads>>

\* The caller keeps no result.
Next ==
    \E j \in 0..(PoolSize - 1), left_associative \in BOOLEAN,
       lambek \in BOOLEAN, strict \in BOOLEAN :
        FromStr(Cats[base + j], left_associative, lambek, strict, FALSE)

Spec == Init /\ [][Next]_vars

\* The caller may keep a result it was returned.
NextKeep ==
    \E j \in 0..(PoolSize - 1), left_associative \in BOOLEAN,
       lambek \in BOOLEAN, strict \in BOOLEAN, keep \in BOOLEAN :
        FromStr(Cats[base + j], left_associative, lambek, strict, keep)

SpecKeep == Init /\ [][NextKeep]_vars

-----------------------------------------------------------------------------
(* CategoryTree: derived metrics and get_arg *)

\* CategoryTree.target: None when atomic, else the atom the result chain
\* ends in.
RECURSIVE target(_)
target(t) ==
    IF is_atomic(t) THEN None
    ELSE IF is_atomic(result_of(t)) THEN Str(root_of(result_of(t)))
    ELSE target(result_of(t))

\* CategoryTree.arity
RECURSIVE arity(_)
arity(t) == IF is_atomic(t) THEN 0 ELSE arity(result_of(t)) + 1

\* CategoryTree._len, the value of len(t): the number of atoms
RECURSIVE _len(_)
_len(t) ==
    IF is_atomic(t) THEN 1 ELSE _len(result_of(t)) + _len(argument_of(t))

\* CategoryTree.degree
RECURSIVE degree(_)
degree(t) ==
    IF is_atomic(t) THEN 1
    ELSE Max(degree(result_of(t)), degree(argument_of(t))) + 1

\* CategoryTree.order
RECURSIVE order(_)
order(t) ==
    IF is_atomic(t) THEN 0
    ELSE Max(order(result_of(t)), order(argument_of(t)) + 1)

\* The atoms counted, the slashes not.
size_of_atoms(t) == _len(t)

\* CategoryTree.size
RECURSIVE size(_)
size(t) ==
    IF is_atomic(t) THEN 1
    ELSE size(result_of(t)) + size(argument_of(t)) + 1

\* get_arg as it would be if slot == arity gave the category itself.
get_arg_whole(t, slot) ==
    IF slot > arity(t) THEN [k |-> ValueError, v |-> <<>>]
    ELSE [k |-> "ok", v |-> t]

\* CategoryTree.get_arg(slot), slot a natural number: the outcome is the
\* category returned or the exception raised.
RECURSIVE get_arg(_, _)
get_arg(t, slot) ==
    IF slot > arity(t) THEN [k |-> ValueError, v |-> <<>>]
    ELSE IF slot = arity(t)
         THEN [k |-> "ok", v |-> IF slot # 0 THEN argument_of(t) ELSE t]
    ELSE get_arg(result_of(t), slot)

-----------------------------------------------------------------------------
(* CategoryTree.to_str with pol_start *)

Digit == <<"0", "1", "2", "3", "4", "5", "6", "7", "8", "9">>

\* str(n) for a natural number n, as the f-strings format an index.
RECURSIVE Decimal(_)
Decimal(n) ==
    IF n < 10 THEN <<Digit[n + 1]>>
    ELSE Decimal(n \div 10) \o <<Digit[(n % 10) + 1]>>

\* f"{name}_{n}"
Indexed(name, n) == name \o <<"_">> \o Decimal(n)

\* atom_delim.fullmatch(tok)
IsDelim(tok) == Len(tok) = 1 /\ tok[1] \in atom_delim

\* The positions of seq whose token atom_delim does not match
\* (leaf_idxs, counted from 1 here).
LeafPositions(seq) == SelectSeq([n \in 1..Len(seq) |-> n],
                                LAMBDA n : ~IsDelim(seq[n]))

\* t.to_str(pol_start=..., positive=..., l_assoc=..., lambek=...) with
\* pol_start an integer: the annotated string and the next free index, or
\* the failure of the sanity check.
to_str_pol(t, pol_start, positive, l_assoc, lambek) ==
    LET io        == inorder(t, l_assoc, lambek, positive)
        seq_      == io.seq
        pol_idx   == io.idxs
        leaf_idxs == LeafPositions(seq_)
        Place(n)  == CHOOSE m \in 1..Len(leaf_idxs) : leaf_idxs[m] = n
        seq == [n \in 1..Len(seq_) |->
                   IF IsDelim(seq_[n]) THEN seq_[n]
                   ELSE Indexed(seq_[n], pol_start + pol_idx[Place(n)])]
    IN  IF ~(Len(leaf_idxs) = _len(t) /\ _len(t) = Len(pol_idx))
        THEN [k |-> AssertionError, s |-> <<>>, next |-> 0]
        ELSE [k |-> "ok", s |-> Join(seq),
              next |-> pol_start + Len(leaf_idxs)]

-----------------------------------------------------------------------------
(* LexicalDecomposition.decompose_category (src/catgram/term_graph.py) *)
(* Indices into nodes count from 0 as in the code; nodes[i + 1] is the     *)
(* node of index i.                                                        *)

\* ProofFrameNode(atom, positive, children)
ProofFrameNode(atom, positive, children) ==
    [atom |-> atom, positive |-> positive, children |-> children]

\* A decomposition whose target is always its first node.
TargetFirst(nodes, edges, target_) ==
    [k |-> "ok", nodes |-> nodes, edges |-> edges, target |-> 0]

\* LexicalDecomposition(nodes, edges, target)
LexicalDecomposition(nodes, edges, target_) ==
    [k |-> "ok", nodes |-> nodes, edges |-> edges, target |-> target_]

\* The shifted edges lost.
DropEdges(edges, shift) == <<>>

\* The edges taken over with their indices as they are.
SameEdges(edges, shift) == edges

\* [(src + shift, dst + shift) for src, dst in edges]
ShiftEdges(edges, shift) ==
    [n \in 1..Len(edges) |-> <<edges[n][1] + shift, edges[n][2] + shift>>]

\* The new child put after the children already there.
AddChildLast(nodes, target_, offset) ==
    [nodes EXCEPT ![target_ + 1].children = @ \o <<offset>>]

\* nodes[target]._replace(children=(offset,) + nodes[target].children)
AddChild(nodes, target_, offset) ==
    [nodes EXCEPT ![target_ + 1].children = <<offset>> \o @]

\* The argument decomposed with the polarity of the whole.
Kept(positive) == positive

\* not positive: the polarity the argument is decomposed with.
Flipped(positive) == ~positive

\* LexicalDecomposition.decompose_category(category, positive)
RECURSIVE decompose_category(_, _)
decompose_category(category, positive) ==
    IF is_atomic(category)
    THEN LexicalDecomposition(
             <<ProofFrameNode(root_of(category), positive, <<>>)>>, <<>>, 0)
    ELSE
    LET result   == decompose_category(result_of(category), positive)
        argument == decompose_category(argument_of(category),
                                       Flipped(positive))
        root     == root_of(category)
    IN  IF result.k # "ok" THEN result
        ELSE IF argument.k # "ok" THEN argument
        ELSE IF (root = FSLASH /\ ~positive) \/ (root = BSLASH /\ positive)
        THEN LET shift == Len(result.nodes)
                 edge  == <<result.target, shift + argument.target>>
                 left  == AddChild(result.nodes, result.target,
                                   edge[2] - edge[1])
             IN  LexicalDecomposition(
                     left \o argument.nodes,
                     <<edge>> \o result.edges
                              \o ShiftEdges(argument.edges, shift),
                     edge[1])
        ELSE IF (root = FSLASH /\ positive) \/ (root = BSLASH /\ ~positive)
        THEN LET shift == Len(argument.nodes)
                 edge  == <<shift + result.target, argument.target>>
                 right == AddChild(result.nodes, result.target,
                                   edge[2] - edge[1])
             IN  LexicalDecomposition(
                     argument.nodes \o right,
                     <<edge>> \o argument.edges
                              \o ShiftEdges(result.edges, shift),
                     edge[1])
        ELSE [k |-> ValueError]

-----------------------------------------------------------------------------
(* TermGraph (src/catgram/term_graph.py) *)
(* Slot and node indices count from 0 as in the code.  An int | None       *)
(* argument is None or IntVal(n); a list | None argument is None or      *)
(* ListVal(s).                                                             *)
(* Categories are passed as CategoryTree objects or None.                  *)

IntVal(n) == [k |-> "int", v |-> n]
ListVal(s) == [k |-> "list", v |-> s]

\* lambda_calculus.terms: Variable(name), Abstraction(bound, body),
\* Application(abstraction, argument).  The labels of the graphs built here
\* hold no character Variable.with_valid_name rejects.
Variable(name) == [name |-> name]
Abstraction(bound, body) == [bound |-> bound, body |-> body]
Application(abstraction, argument) ==
    [abstraction |-> abstraction, argument |-> argument]

\* _unsafe = re.compile(r"[().λ]")
_unsafe == {"(", ")", ".", "λ"}

\* _unsafe.sub("", word)
Sanitized(word) == SelectSeq(word, LAMBDA ch : ch \notin _unsafe)

\* f"<w_{i}>"
Placeholder(i) == <<"<", "w", "_">> \o Decimal(i) \o <<">">>

\* Only the nodes of the n-th decomposition.
NodesOfLast(decomps, n) ==
    IF n = 0 \/ decomps[n].k = "None" THEN <<>> ELSE decomps[n].nodes

\* The nodes of decomps[1..n] in order: what self.nodes holds when the
\* n-th decomposition is about to be added next.
RECURSIVE NodesUpTo(_, _)
NodesUpTo(decomps, n) ==
    IF n = 0 THEN <<>>
    ELSE NodesUpTo(decomps, n - 1)
         \o (IF decomps[n].k = "None" THEN <<>> ELSE decomps[n].nodes)

\* TermGraph(categories, sentential, linkage, words): the object built, or
\* the exception __init__ raises.
TermGraph(categories, sentential, linkage, words) ==
    LET n == Len(categories)
        sentential_ == IF sentential.k = "None" THEN None
                       ELSE IntVal(sentential.v % n)
        words_ == [i \in 1..n |->
                     IF words.k = "None" \/ Sanitized(words.v[i]) = <<>>
                     THEN Placeholder(i - 1)
                     ELSE Indexed(Sanitized(words.v[i]), i - 1)]
        decomps == [i \in 1..n |->
                      IF categories[i].k = "None" THEN None
                      ELSE decompose_category(
                               categories[i].v,
                               sentential_.k = "int" /\ sentential_.v = i - 1)]
        nodes == NodesUpTo(decomps, n)
        clens == [i \in 1..n |-> Len(NodesUpTo(decomps, i - 1))]
        IsTarget(i, idx) == /\ decomps[i].k # "None"
                            /\ clens[i] + decomps[i].target = idx
        labels == [m \in 1..Len(nodes) |->
                     IF \E i \in 1..n : IsTarget(i, m - 1)
                     THEN words_[CHOOSE i \in 1..n : IsTarget(i, m - 1)]
                     ELSE Indexed(nodes[m].atom, m - 1)]
    IN  IF sentential.k # "None" /\ n = 0 THEN [k |-> "ZeroDivisionError"]
        ELSE IF words.k # "None" /\ Len(words.v) # n THEN [k |-> ValueError]
        ELSE [k |-> "ok", categories |-> categories,
              sentential |-> sentential_, linkage |-> linkage,
              words |-> words_, decomps |-> decomps, nodes |-> nodes,
              clens |-> clens, labels |-> labels]

\* The abstractions wrapped in children order, the first child innermost.
RECURSIVE AbstractionsInward(_, _, _, _)
AbstractionsInward(g, idx, children, body) ==
    IF children = <<>> THEN body
    ELSE AbstractionsInward(
             g, idx, Tail(children),
             [bound |-> g.labels[idx + Head(children) + 1], body |-> body])

\* for child in reversed(children): term = Abstraction(labels[idx + child], term)
RECURSIVE Abstractions(_, _, _, _)
Abstractions(g, idx, children, body) ==
    IF children = <<>> THEN body
    ELSE Abstraction(g.labels[idx + Head(children) + 1],
                     Abstractions(g, idx, Tail(children), body))

\* TermGraph._get_term(idx), called depth calls deep.  The call depends on
\* idx alone, so a chain of calls longer than the number of nodes, which
\* holds some idx twice, never ends: Python stops it with RecursionError.
RECURSIVE _get_term(_, _, _)
RECURSIVE Applications(_, _, _, _, _)
_get_term(g, idx, depth) ==
    LET node == g.nodes[idx + 1]
    IN  IF depth > Len(g.nodes) THEN [k |-> "RecursionError"]
        ELSE IF node.positive
        THEN LET inner == IF idx \in DOMAIN g.linkage
                          THEN _get_term(g, g.linkage[idx], depth + 1)
                          ELSE [k |-> "ok", v |-> Variable(g.labels[idx + 1])]
             IN  IF inner.k # "ok" THEN inner
                 ELSE [k |-> "ok",
                       v |-> Abstractions(g, idx, node.children, inner.v)]
        ELSE Applications(g, idx, node.children,
                          Variable(g.labels[idx + 1]), depth)

\* for child in children: term = Application(term, self._get_term(idx + child))
Applications(g, idx, children, acc, depth) ==
    IF children = <<>> THEN [k |-> "ok", v |-> acc]
    ELSE LET arg == _get_term(g, idx + Head(children), depth + 1)
         IN  IF arg.k # "ok" THEN arg
             ELSE Applications(g, idx, Tail(children),
                               Application(acc, arg.v), depth)

\* TermGraph.get_term(idx)
get_term(g, idx) ==
    LET n    == Len(g.categories)
        idx_ == IF idx.k = "None" THEN g.sentential ELSE idx
        slot == IF idx_.v < 0 THEN idx_.v + n ELSE idx_.v
    IN  IF idx_.k = "None" THEN [k |-> ValueError]
        ELSE IF slot < 0 \/ slot >= n THEN [k |-> "IndexError"]
        ELSE IF g.decomps[slot + 1].k = "None" THEN [k |-> "AttributeError"]
        ELSE _get_term(g, g.clens[slot + 1] + g.decomps[slot + 1].target, 1)

-----------------------------------------------------------------------------
(* The process: a caller holding one CategoryTree and calling its methods *)

\* The atoms the caller's categories are built from.
Atoms == {<<"S">>, <<"N", "P">>, <<"N">>}

\* The largest number of atoms in a category the caller holds.
MaxLeaves == 3

\* The largest pol_start the caller passes; with it the indices reach two
\* digits.
MaxPolStart == 9

\* The categories with n atoms, each built by the constructor
\* CategoryTree(root, result, argument), which __post_init__ accepts.
RECURSIVE TreesOf(_)
TreesOf(n) ==
    IF n = 1 THEN {cls(a, None, None) : a \in Atoms}
    ELSE UNION {{cls(root, Obj(result, <<>>), Obj(argument, <<>>)) :
                     root \in {FSLASH, BSLASH},
                     result \in TreesOf(m), argument \in TreesOf(n - m)} :
                m \in 1..(n - 1)}

Trees == UNION {TreesOf(n) : n \in 1..MaxLeaves}

InitTree ==
    /\ subject \in Trees
    /\ probe = NoProbe
    /\ INSTANCES = EmptyInterner /\ last = NoCall /\ held = NoCall /\ base = 1
    /\ GraphIdle /\ ThreadIdle

\* subject.get_arg(slot)
GetArg(slot) ==
    /\ probe' = [op |-> "get_arg", slot |-> slot, r |-> get_arg(subject, slot)]
    /\ UNCHANGED <<subject, INSTANCES, parserVars, graphVars, threads>>

\* Reading subject.arity, .size, .degree, .order, len(subject), .target
Metrics ==
    /\ probe' = [op |-> "metrics", arity |-> arity(subject),
                 size |-> size(subject), degree |-> degree(subject),
                 order |-> order(subject), len |-> _len(subject),
                 target |-> target(subject)]
    /\ UNCHANGED <<subject, INSTANCES, parserVars, graphVars, threads>>

\* subject.to_str(pol_start=..., positive=..., l_assoc=..., lambek=...)
ToStr(pol_start, positive, l_assoc, lambek) ==
    /\ probe' = [op |-> "to_str", pol_start |-> pol_start,
                 positive |-> positive, l_assoc |-> l_assoc,
                 lambek |-> lambek,
                 r |-> to_str_pol(subject, pol_start, positive, l_assoc,
                                  lambek)]
    /\ UNCHANGED <<subject, INSTANCES, parserVars, graphVars, threads>>

\* LexicalDecomposition.decompose_category(subject, positive)
Decompose(positive) ==
    /\ probe' = [op |-> "decompose_category", positive |-> positive,
                 r |-> decompose_category(subject, positive)]
    /\ UNCHANGED <<subject, INSTANCES, parserVars, graphVars, threads>>

NextTree ==
    \/ \E slot \in 0..MaxLeaves : GetArg(slot)
    \/ Metrics
    \/ \E pol_start \in {0, MaxPolStart}, positive \in BOOLEAN,
          l_assoc \in BOOLEAN, lambek \in BOOLEAN :
           ToStr(pol_start, positive, l_assoc, lambek)
    \/ \E positive \in BOOLEAN : Decompose(positive)

SpecTree == InitTree /\ [][NextTree]_vars

-----------------------------------------------------------------------------
(* The process: a caller building one TermGraph and asking it for terms *)

S_  == cls(<<"S">>, None, None)
NP_ == cls(<<"N", "P">>, None, None)

\* (S\NP)/NP and S/NP in the default (Steedman) notation.
TransitiveVerb ==
    cls(FSLASH, Obj(cls(BSLASH, Obj(S_, <<>>), Obj(NP_, <<>>)), <<>>),
        Obj(NP_, <<>>))
Functor == cls(FSLASH, Obj(S_, <<>>), Obj(NP_, <<>>))

\* The category sequences graphs are built from.
Sequents ==
    { <<Obj(NP_, <<>>), Obj(TransitiveVerb, <<>>), Obj(NP_, <<>>)>>,
      <<Obj(Functor, <<>>)>>,
      <<None, Obj(Functor, <<>>), Obj(NP_, <<>>)>> }

\* The words passed: plain ones, and ones with characters _unsafe removes.
PlainWords == << <<"J", "o", "h", "n">>, <<"l", "i", "k", "e", "s">>,
                 <<"M", "a", "r", "y">> >>
UnsafeWords == << <<".">>, <<"(", "l", "i", "k", "e", "s", ")">>,
                  <<"λ", "M", ".">> >>

\* Words of which one is spelled like an atom of the categories.
AtomWords == << <<"J", "o", "h", "n">>, <<"N", "P">>, <<"M", "a", "r", "y">> >>

\* The largest number of links in a linkage passed.
MaxLinks == 2

NodeCount(categories) ==
    Len(NodesUpTo([i \in 1..Len(categories) |->
                      IF categories[i].k = "None" THEN None
                      ELSE decompose_category(categories[i].v, FALSE)],
                  Len(categories)))

\* Every mapping of at most MaxLinks node indices to node indices, whether
\* or not it links a positive atom to a negative atom of the same name.
Linkages(n) ==
    UNION {[D -> 0..(n - 1)] :
               D \in {X \in SUBSET (0..(n - 1)) : Cardinality(X) <= MaxLinks}}

InitGraph ==
    /\ \E categories \in Sequents :
       \E sentential \in {None} \cup {IntVal(i) : i \in -1..(Len(categories) - 1)},
          linkage \in Linkages(NodeCount(categories)),
          words \in {None, ListVal(SubSeq(PlainWords, 1, Len(categories))),
                     ListVal(SubSeq(UnsafeWords, 1, Len(categories))),
                     ListVal(SubSeq(AtomWords, 1, Len(categories)))} :
           graph = TermGraph(categories, sentential, linkage, words)
    /\ term = NoTerm
    /\ INSTANCES = EmptyInterner /\ last = NoCall /\ held = NoCall /\ base = 1
    /\ TreeIdle /\ ThreadIdle

\* graph.get_term(idx)
GetTerm(idx) ==
    /\ term' = [k |-> "get_term", idx |-> idx, r |-> get_term(graph, idx)]
    /\ UNCHANGED <<graph, INSTANCES, parserVars, treeVars, threads>>

NextGraph ==
    \E idx \in {None} \cup {IntVal(i) : i \in 0..(Len(graph.categories) - 1)} :
        GetTerm(idx)

SpecGraph == InitGraph /\ [][NextGraph]_vars

-----------------------------------------------------------------------------
(* from_str calls running concurrently on the shared interner *)
(* A call touches INSTANCES once per pass of the loop of _parse_str at     *)
(* most, by the check-then-insert                                          *)
(*     if key in INSTANCES: ... else: INSTANCES[key] = ...                 *)
(* or by a lookup.  Between the check and the insert other calls may run;  *)
(* everything else in a pass works on locals.  A call in progress is its   *)
(* stack of _parse_str frames, each the arguments c and the locals s.      *)

\* One pass of the while loop of _parse_str, or the code after the loop when
\* the loop ends: "next" with the locals for the next pass, "call" with the
\* arguments of the nested _parse_str call, or "end" with the outcome r of
\* this _parse_str call.
Pass(c, s) ==
    LET End(r) == [kind |-> "end", r |-> r]
        Step(r) == IF r.err # "" THEN End(Raise(r.err, r.s))
                   ELSE [kind |-> "next", s |-> [r.s EXCEPT !.i = @ + 1]]
    IN
    IF s.i >= Len(c.cat)
    THEN IF c.in_paren
         THEN IF c.strict THEN End(Raise(MalformedCategoryError, s))
              ELSE End(Finish(c, Warn(s, "unclosed")))
         ELSE End(Finish(c, s))
    ELSE
    LET tok == c.cat[s.i + 1] IN
    IF tok = RPAREN
    THEN IF ~c.in_paren
         THEN IF c.strict THEN End(Raise(MalformedCategoryError, s))
              ELSE End(Finish(c, Warn(s, "extraneous")))
         ELSE End(Finish(c, s))
    ELSE IF s.right.k # "None" /\ (~c.l_assoc \/ ~InSlashStr(tok))
    THEN IF ~c.in_paren \/ c.strict THEN End(Raise(MalformedCategoryError, s))
         ELSE End(Finish(c, [Warn(s, "assume") EXCEPT !.i = @ - 1]))
    ELSE IF InSlashStr(tok) THEN Step(SlashStep(c, s, tok))
    ELSE IF tok = LPAREN
    THEN [kind |-> "call", c |-> [c EXCEPT !.idx = s.i + 1, !.in_paren = TRUE]]
    ELSE Step(PlaceOperand(c, s, Str(tok)))

\* The locals of a _parse_str call that starts; the frames keep no copy of
\* the interner.
Locals(c, w) ==
    [i |-> c.idx, root |-> None, left |-> None, right |-> None,
     I |-> EmptyInterner, w |-> w]

Frame(c, s) == [c |-> c, s |-> [s EXCEPT !.I = EmptyInterner]]

\* What the caller gets from a call that ended.
Outcome(r) == [k |-> r.k, v |-> r.v, oid |-> r.oid, w |-> r.w]

\* A from_str call about to start.
Thread(cat, left_associative, lambek, strict) ==
    [cat |-> cat, left_associative |-> left_associative, lambek |-> lambek,
     strict |-> strict, pc |-> "start", stack |-> <<>>, pend |-> <<>>,
     wrote |-> {}, out |-> [k |-> "none"]]

\* I without its entry for key.
Without(I, key) == [x \in DOMAIN I \ {key} |-> I[x]]

Done(th, r) == [th EXCEPT !.pc = "done", !.stack = <<>>, !.out = Outcome(r)]

\* The call th after the outcome p of a pass of its innermost frame.  A
\* nested call that returns hands its tree to the frame below, which places
\* it as an operand and moves on.
AfterPass(th, p) ==
    LET n   == Len(th.stack)
        top == th.stack[n]
    IN  IF p.kind = "next"
        THEN [th EXCEPT !.stack[n] = Frame(top.c, p.s)]
        ELSE IF p.kind = "call"
        THEN [th EXCEPT !.stack = Append(@, Frame(p.c, Locals(p.c, top.s.w)))]
        ELSE IF p.r.k # "ok" \/ n = 1 THEN Done(th, p.r)
        ELSE LET below == th.stack[n - 1]
                 s1 == [below.s EXCEPT !.i = p.r.i, !.w = p.r.w]
                 r  == PlaceOperand(below.c, s1, Obj(p.r.v, p.r.oid))
             IN  IF r.err # "" THEN Done(th, Raise(r.err, r.s))
                 ELSE [th EXCEPT
                          !.stack = Append(SubSeq(@, 1, n - 2),
                                           Frame(below.c,
                                                 [r.s EXCEPT !.i = @ + 1]))]


\* One atomic step of the call th on the shared interner I: the call and the
\* interner after it.  A pass whose check finds its key absent stops before
\* the insert (pc = "insert", pend the key); the insert is the next step of
\* the call and stores its tree under the key whatever is there by then.
\* wrote collects the entries the call has stored.
ThreadStep(th, I) ==
    IF th.pc = "start"
    THEN LET key == <<th.cat, th.lambek>>
             c   == [cat |-> Tokenize(th.cat), l_assoc |-> th.left_associative,
                     lambek |-> th.lambek, strict |-> th.strict, idx |-> 0,
                     in_paren |-> FALSE]
         IN  IF key \in DOMAIN I
             THEN [th |-> Done(th, [k |-> "ok", v |-> I[key], oid |-> key,
                                    w |-> <<>>]),
                   I |-> I]
             ELSE [th |-> [th EXCEPT !.pc = "loop",
                                     !.stack = <<Frame(c, Locals(c, <<>>))>>],
                   I |-> I]
    ELSE
    LET top    == th.stack[Len(th.stack)]
        seen   == IF th.pc = "insert" THEN Without(I, th.pend) ELSE I
        p      == Pass(top.c, [top.s EXCEPT !.I = seen])
        after  == IF p.kind = "next" THEN p.s.I
                  ELSE IF p.kind = "end" THEN p.r.I
                  ELSE seen
        stored == DOMAIN after \ DOMAIN seen
    IN  IF th.pc = "loop" /\ stored # {}
        THEN [th |-> [th EXCEPT !.pc = "insert",
                                !.pend = CHOOSE key \in stored : TRUE],
              I |-> I]
        ELSE LET th1 == AfterPass(th, p)
             IN  [th |-> [th1 EXCEPT
                             !.pc = IF th1.pc = "done" THEN "done" ELSE "loop",
                             !.pend = <<>>,
                             !.wrote = @ \cup {<<key, after[key]>> :
                                                  key \in stored}],
                  I |-> after]

\* The strings and the number of the concurrent calls.
ThreadCats ==
    << <<"(", "A", "/", "B", "/", "C", ")">>,
       <<"(", "A", "/", "C", "/", "B", ")">>,
       <<"A", "/", "B">> >>

NThreads == 2

\* Every thread is about to call from_str; nothing is interned yet.
InitThreads ==
    /\ threads \in [1..NThreads ->
                       {Thread(ThreadCats[n], left_associative, lambek, strict) :
                            n \in 1..Len(ThreadCats),
                            left_associative \in BOOLEAN, lambek \in BOOLEAN,
                            strict \in BOOLEAN}]
    /\ INSTANCES = EmptyInterner
    /\ last = NoCall /\ held = NoCall /\ base = 1
    /\ TreeIdle /\ GraphIdle

\* Thread t runs its next step.
Run(t) ==
    /\ threads[t].pc # "done"
    /\ LET r == ThreadStep(threads[t], INSTANCES)
       IN  /\ threads' = [threads EXCEPT ![t] = r.th]
           /\ INSTANCES' = r.I
    /\ UNCHANGED <<parserVars, treeVars, graphVars>>

NextThreads == \E t \in 1..NThreads : Run(t)

SpecThreads == InitThreads /\ [][NextThreads]_vars

-----------------------------------------------------------------------------
(* Notions the properties are stated with *)

\* from_str run in a process that has parsed nothing yet.
Fresh(cat, left_associative, lambek, strict) ==
    from_str(EmptyInterner, cat, left_associative, lambek, strict)

Called == last.k # "none"

IsSlash(tok) == tok \in {FSLASH, BSLASH}

\* The parenthesis depth after each of the first n tokens of t.
Depth(t) ==
    LET d[n \in 0..Len(t)] ==
            IF n = 0 THEN 0
            ELSE d[n - 1] + (IF t[n] = LPAREN THEN 1
                             ELSE IF t[n] = RPAREN THEN -1 ELSE 0)
    IN  d

\* A closing parenthesis matches no open one, or one is open at the end.
Unbalanced(cat) ==
    LET t == Tokenize(cat)
        d == Depth(t)
    IN  (\E n \in 1..Len(t) : d[n] < 0) \/ d[Len(t)] # 0

\* Some slash has no right operand before its (sub)expression ends, or no
\* left operand before it.
SlashLacksOperand(cat) ==
    LET t == Tokenize(cat)
    IN  \E n \in 1..Len(t) :
            /\ IsSlash(t[n])
            /\ \/ n = Len(t)
               \/ t[n + 1] = RPAREN
               \/ n = 1
               \/ t[n - 1] = LPAREN
               \/ IsSlash(t[n - 1])

\* The index of the parenthesis closing the one at index n of t; 0 if none.
MatchClose(t, n) ==
    LET d == Depth(t)
        closers == {m \in (n + 1)..Len(t) : d[m] = d[n - 1]}
    IN  IF closers = {} THEN 0
        ELSE CHOOSE m \in closers : \A o \in closers : m <= o

\* A pair of parentheses encloses the whole string, a single atom, or
\* nothing but another pair.
HasRedundantParens(cat) ==
    LET t == Tokenize(cat)
    IN  \E n \in 1..Len(t) :
            /\ t[n] = LPAREN
            /\ LET m == MatchClose(t, n)
               IN  /\ m # 0
                   /\ \/ n = 1 /\ m = Len(t)
                      \/ m = n + 2
                      \/ /\ t[n + 1] = LPAREN
                         /\ MatchClose(t, n + 1) = m - 1

Wrap(cat) == <<"(">> \o cat \o <<")">>

\* cat with its whole or one of its atoms wrapped in a pair of parentheses.
Wrappings(cat) ==
    LET t == Tokenize(cat)
    IN  {Wrap(cat)} \cup
        {Join(SubSeq(t, 1, n - 1) \o <<Wrap(t[n])>> \o SubSeq(t, n + 1, Len(t))) :
            n \in {m \in 1..Len(t) : atom_re(t[m])}}

\* cat wrapped once or twice.
WrappedForms(cat) ==
    Wrappings(cat) \cup UNION {Wrappings(once) : once \in Wrappings(cat)}

CatSet == {Cats[n] : n \in 1..Len(Cats)}

\* "A s1 B s2 C" and "(A s1 B) s2 C".
Flat(s1, s2) == <<"A">> \o s1 \o <<"B">> \o s2 \o <<"C">>
Grouped(s1, s2) == <<"(", "A">> \o s1 \o <<"B", ")">> \o s2 \o <<"C">>
Slashes == {FSLASH, BSLASH}

SameCall(a, b) ==
    /\ a.cat = b.cat
    /\ a.left_associative = b.left_associative
    /\ a.lambek = b.lambek
    /\ a.strict = b.strict

-----------------------------------------------------------------------------
(* The properties *)

\* C1: the interner never changes parse results: in every interner state
\* reached by earlier calls, a call of from_str returns the same tree, or
\* fails in the same way, as the same call does on an empty interner.
C1_InternerNeverChangesResult ==
    Called =>
        LET f == Fresh(last.cat, last.left_associative, last.lambek, last.strict)
        IN  last.k = f.k /\ last.v = f.v

\* C2: round trip: a string without redundant parentheses that parses under
\* (left_associative, lambek) is rendered back exactly by to_str with the
\* same l_assoc and lambek.
C2_RoundTrip ==
    ( /\ Called
      /\ last.strict
      /\ last.k = "ok"
      /\ Fresh(last.cat, last.left_associative, last.lambek, TRUE).k = "ok"
      /\ ~HasRedundantParens(last.cat) )
    => to_str(last.v, last.left_associative, last.lambek) = last.cat

\* C3: in full-parenthesization mode a well-formed string with its whole or
\* an operand wrapped in one or two extra pairs of parentheses parses, and
\* to the tree of the unwrapped string.
C3_RedundantParensStripped ==
    \A u \in CatSet :
        ( /\ Called
          /\ ~last.left_associative
          /\ last.cat \in WrappedForms(u)
          /\ Fresh(u, FALSE, last.lambek, TRUE).k = "ok" )
        => /\ last.k = "ok"
           /\ last.v = Fresh(u, FALSE, last.lambek, TRUE).v

\* C4: a strict call on a string in which a slash lacks an operand fails with
\* MalformedCategoryError, whatever was parsed before.
C4_StrictRejectsSlashWithoutOperand ==
    (Called /\ last.strict /\ SlashLacksOperand(last.cat))
    => last.k = MalformedCategoryError

\* C5: a strict call on a string with unbalanced parentheses fails with
\* MalformedCategoryError, whatever was parsed before.
C5_StrictRejectsUnbalancedParens ==
    (Called /\ last.strict /\ Unbalanced(last.cat))
    => last.k = MalformedCategoryError

\* C6: from_str returns a tree or raises MalformedCategoryError, and raises
\* no other kind of error.
C6_OnlyMalformedCategoryError ==
    Called => last.k \in {"ok", MalformedCategoryError}

\* C7: the flat string "A s1 B s2 C" parsed left-associatively yields a tree
\* equal to the one "(A s1 B) s2 C" parses to in full-parenthesization mode
\* under the same lambek flag.
C7_LeftAssociativeEquivalence ==
    \A s1 \in Slashes, s2 \in Slashes :
        (Called /\ last.cat = Flat(s1, s2) /\ last.left_associative)
        => /\ last.k = "ok"
           /\ LET g == from_str(INSTANCES, Grouped(s1, s2), FALSE, last.lambek,
                                last.strict)
              IN  g.k = "ok" /\ g.v = last.v

\* C8: a strict call in full-parenthesization mode on "A s1 B s2 C" fails
\* with MalformedCategoryError, also after the string was parsed
\* left-associatively.
C8_SecondSlashRejected ==
    \A s1 \in Slashes, s2 \in Slashes :
        ( /\ Called
          /\ last.cat = Flat(s1, s2)
          /\ ~last.left_associative
          /\ last.strict )
        => last.k = MalformedCategoryError

\* C9: parsing again, with the same flags, a string that parsed successfully
\* earlier returns an equal tree, and the very same interned object.
C9_ReparseReturnsSameInstance ==
    (held.k = "ok" /\ SameCall(last, held))
    => /\ last.k = "ok"
       /\ last.v = held.v
       /\ last.oid = held.oid

\* C10: to_str is injective per notation: two trees that render to the same
\* string under (l_assoc, lambek) are equal.
C10_ToStrInjective ==
    \A k1 \in DOMAIN INSTANCES, k2 \in DOMAIN INSTANCES,
       l_assoc \in BOOLEAN, lambek \in BOOLEAN :
        to_str(INSTANCES[k1], l_assoc, lambek)
            = to_str(INSTANCES[k2], l_assoc, lambek)
        => INSTANCES[k1] = INSTANCES[k2]

-----------------------------------------------------------------------------
(* Properties of the CategoryTree methods and of the decomposition *)

\* C11 (as stated): get_arg(slot) raises ValueError when slot > arity, an
\* atomic category's get_arg(0) is the category itself, and for
\* slot == arity the category itself is returned.
C11_GetArgSlotEqualArityIsWhole ==
    probe.op = "get_arg" =>
        /\ probe.slot > arity(subject) => probe.r.k = ValueError
        /\ (is_atomic(subject) /\ probe.slot = 0) =>
               probe.r = [k |-> "ok", v |-> subject]
        /\ probe.slot = arity(subject) =>
               probe.r = [k |-> "ok", v |-> subject]

\* C11 (amended): get_arg(slot) raises ValueError when slot > arity, an
\* atomic category's get_arg(0) is the category itself, and for
\* slot == arity >= 1 the outermost argument of the category is returned.
C11_GetArgSlotEqualArityIsArgument ==
    probe.op = "get_arg" =>
        /\ probe.slot > arity(subject) => probe.r.k = ValueError
        /\ (is_atomic(subject) /\ probe.slot = 0) =>
               probe.r = [k |-> "ok", v |-> subject]
        /\ (~is_atomic(subject) /\ probe.slot = arity(subject)) =>
               probe.r = [k |-> "ok", v |-> argument_of(subject)]

\* A category of two arguments asked for its last slot.
C11_Witness ==
    /\ probe.op = "get_arg"
    /\ arity(subject) = 2
    /\ probe.slot = 2
    /\ probe.r.k = "ok"

\* The number of slashes of a category.
RECURSIVE SlashCount(_)
SlashCount(t) ==
    IF is_atomic(t) THEN 0
    ELSE 1 + SlashCount(result_of(t)) + SlashCount(argument_of(t))

\* Every argument along the result chain of t is atomic.
RECURSIVE AtomicArguments(_)
AtomicArguments(t) ==
    is_atomic(t) \/ (is_atomic(argument_of(t)) /\ AtomicArguments(result_of(t)))

\* C12 (as stated): decompose_category(cat, p) has exactly cat.arity edges
\* and exactly len(cat) nodes.
C12_EdgeCountIsArity ==
    probe.op = "decompose_category" =>
        /\ probe.r.k = "ok"
        /\ Len(probe.r.edges) = arity(subject)
        /\ Len(probe.r.nodes) = _len(subject)

\* C12 (amended): decompose_category(cat, p) has exactly one edge per slash
\* of cat, which is cat.arity exactly when every argument of cat is atomic,
\* and exactly len(cat) nodes.
C12_EdgeCountIsSlashCount ==
    probe.op = "decompose_category" =>
        /\ probe.r.k = "ok"
        /\ Len(probe.r.edges) = SlashCount(subject)
        /\ Len(probe.r.edges) = arity(subject) <=> AtomicArguments(subject)
        /\ Len(probe.r.nodes) = _len(subject)

\* A category with a complex argument, decomposed.
C12_Witness ==
    /\ probe.op = "decompose_category"
    /\ ~is_atomic(subject)
    /\ ~is_atomic(argument_of(subject))
    /\ Len(probe.r.edges) = 2

-----------------------------------------------------------------------------
(* Properties of TermGraph *)

\* The graph of "John likes Mary": NP, (S\NP)/NP, NP with their words.
IsJohnLikesMary ==
    /\ graph.categories =
           <<Obj(NP_, <<>>), Obj(TransitiveVerb, <<>>), Obj(NP_, <<>>)>>
    /\ graph.words = <<Indexed(PlainWords[1], 0), Indexed(PlainWords[2], 1),
                       Indexed(PlainWords[3], 2)>>

\* The verb's left (subject) NP node 1 paired with John's node 0 and its
\* right (object) NP node 3 paired with Mary's node 4, in either direction.
SubjectObjectLinkage == {(1 :> 0) @@ (3 :> 4), (0 :> 1) @@ (4 :> 3)}

\* likes_1(Mary_2)(John_0)
LikesMaryJohn ==
    Application(
        Application(Variable(Indexed(PlainWords[2], 1)),
                    Variable(Indexed(PlainWords[3], 2))),
        Variable(Indexed(PlainWords[1], 0)))

\* C13 (as stated): the graph of NP, (S\NP)/NP, NP with words John, likes,
\* Mary, sentential index 1 and the verb's NP nodes linked with the nouns'
\* gives likes_1(Mary_2)(John_0) for the verb slot.
C13_VerbTermWithSententialVerb ==
    ( /\ IsJohnLikesMary
      /\ graph.sentential = IntVal(1)
      /\ graph.linkage \in SubjectObjectLinkage
      /\ term.k = "get_term"
      /\ term.idx = IntVal(1) )
    => term.r = [k |-> "ok", v |-> LikesMaryJohn]

\* C13 (amended): the same graph built with no sentential slot
\* (sentential=None), so that the verb is negative and its NP nodes are
\* positive, and with the linkage from the verb's NP nodes 1 and 3 to the
\* nouns' nodes 0 and 4, gives likes_1(Mary_2)(John_0) for the verb slot.
C13_VerbTermWithoutSentential ==
    ( /\ IsJohnLikesMary
      /\ graph.sentential = None
      /\ graph.linkage = (1 :> 0) @@ (3 :> 4)
      /\ term.k = "get_term"
      /\ term.idx = IntVal(1) )
    => term.r = [k |-> "ok", v |-> LikesMaryJohn]

\* The amended scenario, asked for the verb's term.
C13_Witness ==
    /\ IsJohnLikesMary
    /\ graph.sentential = None
    /\ graph.linkage = (1 :> 0) @@ (3 :> 4)
    /\ term.k = "get_term"
    /\ term.idx = IntVal(1)
    /\ term.r.k = "ok"

\* C14: get_term ends for every graph and every linkage, after a number of
\* nested calls bounded by the number of nodes.
C14_GetTermTerminates ==
    term.k = "get_term" => term.r.k # "RecursionError"

-----------------------------------------------------------------------------
(* Polarized indexing and the derived metrics *)

\* The atoms of t, left to right in the tree.
RECURSIVE LeafAtoms(_)
LeafAtoms(t) ==
    IF is_atomic(t) THEN <<root_of(t)>>
    ELSE LeafAtoms(result_of(t)) \o LeafAtoms(argument_of(t))

DistinctAtoms(t) ==
    Cardinality({LeafAtoms(t)[n] : n \in 1..Len(LeafAtoms(t))}) = _len(t)

\* The rendering tokens with the m-th atom token annotated
\* pol_start + f[m].
Annotated(tokens, pol_start, f) ==
    LET leaves == SelectSeq([n \in 1..Len(tokens) |-> n],
                            LAMBDA n : ~IsDelim(tokens[n]))
        M(n)   == CHOOSE m \in 1..Len(leaves) : leaves[m] = n
    IN  Join([n \in 1..Len(tokens) |->
                 IF IsDelim(tokens[n]) THEN tokens[n]
                 ELSE Indexed(tokens[n], pol_start + f[M(n)])])

\* The ways to number the atom tokens with a permutation of 0 .. n-1 that
\* gives each token the position of a node of the same atom.
NodeNumberings(tokens, nodes) ==
    LET atoms == SelectSeq(tokens, LAMBDA tok : ~IsDelim(tok))
        n     == Len(atoms)
    IN  {f \in [1..n -> 0..(n - 1)] :
            /\ \A a, b \in 1..n : f[a] = f[b] => a = b
            /\ \A a \in 1..n : nodes[f[a] + 1].atom = atoms[a]}

C17_MetricsFollowRecursiveDefinitions ==
    probe.op = "metrics" =>
        LET result   == result_of(subject)
            argument == argument_of(subject)
            metrics  == <<probe.arity, probe.size, probe.degree, probe.order>>
        IN  /\ is_atomic(subject) => metrics = <<0, 1, 1, 0>>
            /\ ~is_atomic(subject) =>
                   /\ probe.arity = arity(result) + 1
                   /\ probe.size = 1 + size(result) + size(argument)
                   /\ probe.degree =
                          1 + (IF degree(result) >= degree(argument)
                               THEN degree(result) ELSE degree(argument))
                   /\ probe.order =
                          (IF order(result) >= order(argument) + 1
                           THEN order(result) ELSE order(argument) + 1)
            /\ subject = S_ => metrics = <<0, 1, 1, 0>>
            /\ subject = TransitiveVerb => metrics = <<2, 5, 3, 1>>

\* The metrics of (S\NP)/NP read.
C17_Witness ==
    /\ probe.op = "metrics"
    /\ subject = TransitiveVerb
    /\ probe.size = 5

-----------------------------------------------------------------------------
(* Properties of lenient parsing *)

\* The latest call logged the warning what.
Warned(what) == \E n \in 1..Len(last.w) : last.w[n] = what

\* One parenthetical of cat is open at its end and nothing else is wrong:
\* cat with ")" appended parses strictly in a process that has parsed
\* nothing yet.
OnlyUnclosed(cat, left_associative, lambek) ==
    LET t == Tokenize(cat)
        d == Depth(t)
    IN  /\ \A n \in 1..Len(t) : d[n] >= 0
        /\ d[Len(t)] = 1
        /\ Fresh(cat \o RPAREN, left_associative, lambek, TRUE).k = "ok"

\* C16: with strict=False an input whose only defect is a parenthetical
\* left open at its end does not fail, a warning is logged, and the tree
\* is that of the strict parse of the input with ")" appended.
C16_UnclosedParentheticalRecovered ==
    ( /\ Called
      /\ ~last.strict
      /\ OnlyUnclosed(last.cat, last.left_associative, last.lambek) )
    => /\ last.k = "ok"
       /\ Warned("unclosed")
       /\ last.v = Fresh(last.cat \o RPAREN, last.left_associative,
                         last.lambek, TRUE).v

\* C19: with strict=False, when a token follows a completed right operand
\* inside a parenthetical (the recovery that logs "Assuming missing closing
\* parenthesis" takes place), the parse does not fail, whatever the token
\* and the enclosing level are.
C19_ExtraneousTokenRecovered ==
    (Called /\ ~last.strict /\ Warned("assume")) => last.k = "ok"

\* Some closing parenthesis of cat matches no open one.
HasUnmatchedClose(cat) ==
    LET t == Tokenize(cat)
        d == Depth(t)
    IN  \E n \in 1..Len(t) : d[n] < 0

\* The number of atoms written in cat.
AtomCount(cat) ==
    Len(SelectSeq(Tokenize(cat), LAMBDA tok : atom_re(tok)))

\* C20: with strict=False a closing parenthesis that matches no open one
\* still fails with MalformedCategoryError, and a call that succeeds has
\* dropped nothing: every atom of the input is in the tree returned.
C20_LenientRejectsUnmatchedClose ==
    (Called /\ ~last.strict) =>
        /\ HasUnmatchedClose(last.cat) => last.k = MalformedCategoryError
        /\ last.k = "ok" => _len(last.v) = AtomCount(last.cat)

-----------------------------------------------------------------------------
(* Properties of concurrent parsing *)

\* C18: however concurrent from_str calls interleave, any two inserts for
\* the same key (string, lambek) store structurally equal trees.
C18_RacingInsertsStoreEqualTrees ==
    \A t, u \in DOMAIN threads :
        \A a \in threads[t].wrote, b \in threads[u].wrote :
            a[1] = b[1] => a[2] = b[2]

-----------------------------------------------------------------------------
(* Properties of the child order and of the decomposition's shape *)

\* The node the notation prescribes for "L op R": result L and argument R,
\* except in the Lambek notation under a backward slash, where the result is
\* R and the argument L.
Binary(op, L, R, lambek) ==
    IF lambek /\ op = BSLASH THEN <<op, R, L>> ELSE <<op, L, R>>

\* The reading of the token sequence t when it has one of the shapes
\* "A op B", "A op B op C", "(A op B) op C", "A op (B op C)" with atoms A, B,
\* C, as a one-element sequence; the empty sequence for any other t.
Reading(t, lambek) ==
    LET a(n) == <<t[n]>>
        Atom(n) == atom_re(t[n])
    IN  IF Len(t) = 3 /\ Atom(1) /\ IsSlash(t[2]) /\ Atom(3)
        THEN <<Binary(t[2], a(1), a(3), lambek)>>
        ELSE IF /\ Len(t) = 5 /\ Atom(1) /\ IsSlash(t[2]) /\ Atom(3)
                /\ IsSlash(t[4]) /\ Atom(5)
        THEN <<Binary(t[4], Binary(t[2], a(1), a(3), lambek), a(5), lambek)>>
        ELSE IF /\ Len(t) = 7 /\ t[1] = LPAREN /\ Atom(2) /\ IsSlash(t[3])
                /\ Atom(4) /\ t[5] = RPAREN /\ IsSlash(t[6]) /\ Atom(7)
        THEN <<Binary(t[6], Binary(t[3], a(2), a(4), lambek), a(7), lambek)>>
        ELSE IF /\ Len(t) = 7 /\ Atom(1) /\ IsSlash(t[2]) /\ t[3] = LPAREN
                /\ Atom(4) /\ IsSlash(t[5]) /\ Atom(6) /\ t[7] = RPAREN
        THEN <<Binary(t[2], a(1), Binary(t[5], a(4), a(6), lambek), lambek)>>
        ELSE <<>>

\* C21: child assignment by notation: whenever from_str returns the parse of
\* a binary expression "L op R", the node has result L and argument R for
\* both slashes with lambek=False, and result R and argument L for a
\* backward slash with lambek=True; so for the final node and for the
\* intermediate node of a left-associative run, in every interner state.
C21_ChildrenFollowNotation ==
    (Called /\ last.k = "ok"
        /\ Reading(Tokenize(last.cat), last.lambek) # <<>>) =>
        last.v = Reading(Tokenize(last.cat), last.lambek)[1]

\* "A\B\C" parsed left-associatively in the Lambek notation: both the
\* intermediate and the final node have their operands swapped.
C21_Witness ==
    /\ Called /\ last.k = "ok"
    /\ last.cat = <<"A", "\\", "B", "\\", "C">>
    /\ last.left_associative /\ last.lambek
    /\ last.v = <<BSLASH, <<<<"C">>>>, <<BSLASH, <<<<"B">>>>, <<<<"A">>>>>>>>

\* The atoms of t in reading order, each with the polarity the flip rule
\* gives it: p, negated once for every argument link on the way from the root.
RECURSIVE LeafSigns(_, _)
LeafSigns(t, p) ==
    IF is_atomic(t) THEN <<[atom |-> root_of(t), positive |-> p]>>
    ELSE LeafSigns(result_of(t), p) \o LeafSigns(argument_of(t), ~p)

\* The atom and the polarity of each node.
NodeSigns(nodes) ==
    [n \in 1..Len(nodes) |->
        [atom |-> nodes[n].atom, positive |-> nodes[n].positive]]

\* How often x occurs in seq.
Count(seq, x) == Cardinality({n \in 1..Len(seq) : seq[n] = x})

\* C22: polarity-flip rule: the nodes of decompose_category(cat, p) are the
\* atomic leaves of cat, each with polarity p negated once for every argument
\* link on the path from the root to the leaf; an atomic category decomposes
\* into the single node (root, p) with no edges and target 0.
C22_PolarityFlipsPerArgumentLink ==
    probe.op = "decompose_category" =>
        /\ probe.r.k = "ok"
        /\ LET leaves == LeafSigns(subject, probe.positive)
               signs  == NodeSigns(probe.r.nodes)
           IN  /\ Len(signs) = Len(leaves)
               /\ \A n \in 1..Len(leaves) :
                      Count(signs, leaves[n]) = Count(leaves, leaves[n])
        /\ is_atomic(subject) =>
               probe.r = LexicalDecomposition(
                             <<ProofFrameNode(root_of(subject), probe.positive,
                                              <<>>)>>, <<>>, 0)

\* A category whose argument has an argument, decomposed: the atom reached
\* over two argument links has the polarity of the whole again.
C22_Witness ==
    /\ probe.op = "decompose_category"
    /\ ~is_atomic(subject)
    /\ ~is_atomic(argument_of(subject))
    /\ DistinctAtoms(subject)
    /\ \E n \in 1..Len(probe.r.nodes) :
           /\ probe.r.nodes[n].atom = root_of(argument_of(argument_of(subject)))
           /\ probe.r.nodes[n].positive = probe.positive

\* The polarity of the node of index i.
PositiveAt(nodes, i) == nodes[i + 1].positive

\* The number of slashes of t that stand at the root of a positive
\* subcategory, when t has polarity p and polarity flips on argument links.
RECURSIVE PositiveSlashes(_, _)
PositiveSlashes(t, p) ==
    IF is_atomic(t) THEN 0
    ELSE (IF p THEN 1 ELSE 0) + PositiveSlashes(result_of(t), p)
         + PositiveSlashes(argument_of(t), ~p)

\* C23 (as stated): decompose_category(cat, p).edges has exactly one edge
\* per slash of cat, and every edge (source, destination) runs from a
\* positive node to a negative node, for both polarities p.
C23_EdgesRunPositiveToNegative ==
    probe.op = "decompose_category" =>
        /\ probe.r.k = "ok"
        /\ Len(probe.r.edges) = SlashCount(subject)
        /\ \A n \in 1..Len(probe.r.edges) :
               /\ PositiveAt(probe.r.nodes, probe.r.edges[n][1])
               /\ ~PositiveAt(probe.r.nodes, probe.r.edges[n][2])

\* C23 (amended): decompose_category(cat, p).edges has exactly one edge per
\* slash of cat, every edge joins two nodes of opposite polarity, and the
\* source of an edge has the polarity of the subcategory whose slash the edge
\* stands for: the first edge starts at a node of polarity p, and as many
\* edges start at a positive node as cat has slashes at the root of a
\* positive subcategory.
C23_EdgesJoinOppositePolarities ==
    probe.op = "decompose_category" =>
        /\ probe.r.k = "ok"
        /\ Len(probe.r.edges) = SlashCount(subject)
        /\ \A n \in 1..Len(probe.r.edges) :
               PositiveAt(probe.r.nodes, probe.r.edges[n][1])
                   # PositiveAt(probe.r.nodes, probe.r.edges[n][2])
        /\ ~is_atomic(subject) =>
               PositiveAt(probe.r.nodes, probe.r.edges[1][1]) = probe.positive
        /\ Cardinality({n \in 1..Len(probe.r.edges) :
                            PositiveAt(probe.r.nodes, probe.r.edges[n][1])})
               = PositiveSlashes(subject, probe.positive)

\* A negative category with a complex argument, decomposed: its first edge
\* starts at a negative node and another edge starts at a positive one.
C23_Witness ==
    /\ probe.op = "decompose_category"
    /\ ~probe.positive
    /\ ~is_atomic(subject)
    /\ ~is_atomic(argument_of(subject))
    /\ ~PositiveAt(probe.r.nodes, probe.r.edges[1][1])
    /\ \E n \in 1..Len(probe.r.edges) :
           PositiveAt(probe.r.nodes, probe.r.edges[n][1])

\* The result side's nodes come first: (root, positive) is ("/", False) or
\* ("\", True).
ResultFirst(t, p) ==
    (root_of(t) = FSLASH /\ ~p) \/ (root_of(t) = BSLASH /\ p)

\* seq with both indices of every pair raised by shift.
Raised(seq, shift) ==
    [n \in 1..Len(seq) |-> <<seq[n][1] + shift, seq[n][2] + shift>>]

\* C24: node and edge order of the recursive step: for a complex category
\* the result's nodes precede the argument's nodes when (root, positive) is
\* (/, False) or (\, True), and the argument's nodes precede the result's
\* when it is (/, True) or (\, False); the nodes are those of the two sides
\* (the result's target node apart, which gains a child); the edge list is
\* the new edge, then the left side's edges unchanged, then the right side's
\* edges with both indices shifted by the number of left-side nodes; and the
\* new edge is (absolute index of the result's target, absolute index of the
\* argument's target).
C24_RecursiveStepOrder ==
    (probe.op = "decompose_category" /\ ~is_atomic(subject)) =>
        LET r        == probe.r
            result   == decompose_category(result_of(subject), probe.positive)
            argument == decompose_category(argument_of(subject),
                                           ~probe.positive)
            first    == ResultFirst(subject, probe.positive)
            left     == IF first THEN result ELSE argument
            right    == IF first THEN argument ELSE result
            shift    == Len(left.nodes)
            rtarget  == IF first THEN result.target
                        ELSE shift + result.target
            atarget  == IF first THEN shift + argument.target
                        ELSE argument.target
            sides    == left.nodes \o right.nodes
        IN  /\ r.k = "ok"
            /\ Len(r.nodes) = Len(sides)
            /\ \A i \in 0..(Len(sides) - 1) :
                   IF i = rtarget
                   THEN /\ r.nodes[i + 1].atom = sides[i + 1].atom
                        /\ r.nodes[i + 1].positive = sides[i + 1].positive
                   ELSE r.nodes[i + 1] = sides[i + 1]
            /\ r.edges = <<<<rtarget, atarget>>>> \o left.edges
                             \o Raised(right.edges, shift)

\* A positive category "X/Y" with a complex result X, decomposed: the
\* argument's node comes first and the result's edge is shifted by one.
C24_Witness ==
    /\ probe.op = "decompose_category"
    /\ probe.positive
    /\ ~is_atomic(subject)
    /\ root_of(subject) = FSLASH
    /\ ~is_atomic(result_of(subject))
    /\ Len(probe.r.edges) = 2
    /\ probe.r.nodes[1].atom = root_of(argument_of(subject))

\* C25: target of a decomposition: decompose_category(cat, p).target is a
\* valid index into nodes; the node there has polarity p and the atom of the
\* category's eventual atomic result (cat.root if atomic, cat.target
\* otherwise); and for a complex category it is the source index of the
\* first edge.
C25_TargetIsResultAtom ==
    probe.op = "decompose_category" =>
        /\ probe.r.k = "ok"
        /\ probe.r.target \in 0..(Len(probe.r.nodes) - 1)
        /\ probe.r.nodes[probe.r.target + 1].positive = probe.positive
        /\ probe.r.nodes[probe.r.target + 1].atom =
               (IF is_atomic(subject) THEN root_of(subject)
                ELSE target(subject).v)
        /\ ~is_atomic(subject) => probe.r.target = probe.r.edges[1][1]

\* A category whose target atom occurs nowhere else in it, decomposed with
\* its target node not the first node.
C25_Witness ==
    /\ probe.op = "decompose_category"
    /\ ~is_atomic(subject)
    /\ DistinctAtoms(subject)
    /\ probe.r.target > 0
    /\ probe.r.nodes[probe.r.target + 1].atom = target(subject).v

\* The arguments of t from its outermost slash inward.
RECURSIVE ArgumentsOutermostFirst(_)
ArgumentsOutermostFirst(t) ==
    IF is_atomic(t) THEN <<>>
    ELSE <<argument_of(t)>> \o ArgumentsOutermostFirst(result_of(t))

\* The atom a category's decomposition has at its target.
TargetAtom(t) == IF is_atomic(t) THEN root_of(t) ELSE target(t).v

\* C26: children offsets and edges agree: in a decomposition, for every
\* node index i and every offset c of its children, i + c is a valid index
\* and (i, i + c) is an edge; every edge (s, d) appears exactly once, as the
\* offset d - s in the children of node s; and the offsets of the target
\* node list the category's arguments from the outermost slash inward.
C26_ChildrenAgreeWithEdges ==
    probe.op = "decompose_category" =>
        LET nodes == probe.r.nodes
            edges == probe.r.edges
            EdgeSet == {edges[n] : n \in 1..Len(edges)}
            args  == ArgumentsOutermostFirst(subject)
            tnode == nodes[probe.r.target + 1]
        IN  /\ probe.r.k = "ok"
            /\ \A i \in 0..(Len(nodes) - 1) :
               \A m \in 1..Len(nodes[i + 1].children) :
                   LET c == nodes[i + 1].children[m]
                   IN  /\ i + c \in 0..(Len(nodes) - 1)
                       /\ <<i, i + c>> \in EdgeSet
            /\ \A n \in 1..Len(edges) :
                   /\ edges[n][1] \in 0..(Len(nodes) - 1)
                   /\ Count(nodes[edges[n][1] + 1].children,
                            edges[n][2] - edges[n][1]) = 1
                   /\ Count(edges, edges[n]) = 1
            /\ Len(tnode.children) = Len(args)
            /\ \A m \in 1..Len(args) :
                   LET child == nodes[probe.r.target + tnode.children[m] + 1]
                   IN  /\ child.atom = TargetAtom(args[m])
                       /\ child.positive = ~probe.positive
            /\ ~is_atomic(subject) =>
                   tnode.children[1] = edges[1][2] - edges[1][1]

\* A category of two arguments with different target atoms, decomposed: its
\* target node has two children, the outer argument's first.
C26_Witness ==
    /\ probe.op = "decompose_category"
    /\ arity(subject) = 2
    /\ DistinctAtoms(subject)
    /\ Len(probe.r.nodes[probe.r.target + 1].children) = 2
    /\ probe.r.nodes[probe.r.target
                     + probe.r.nodes[probe.r.target + 1].children[1] + 1].atom
           = root_of(argument_of(subject))

-----------------------------------------------------------------------------
(* Properties of the TermGraph layout and of term extraction *)

\* The number of nodes of the present slots among the first n.
RECURSIVE NodesBefore(_, _)
NodesBefore(decomps, n) ==
    IF n = 0 THEN 0
    ELSE NodesBefore(decomps, n - 1)
         + (IF decomps[n].k = "None" THEN 0 ELSE Len(decomps[n].nodes))

\* The absolute slot of index i among n slots by Python's index convention.
AbsoluteSlot(i, n) == IF i < 0 THEN i + n ELSE i

\* C27: TermGraph construction layout: sentential is normalised to an
\* absolute slot (a negative index counts from the end, the default -1 is
\* the last slot, None stays None); each present slot i is decomposed with
\* polarity True iff i is the sentential slot; nodes is the concatenation of
\* the slots' node sequences in slot order, absent slots contributing none;
\* clens[i] is the total number of nodes of the slots before i, so that
\* clens[i] + decomps[i].target is the index of slot i's target node.
C27_ConstructionLayout ==
    graph.k = "ok" =>
        LET n == Len(graph.categories)
        IN  /\ \A i \in (-n)..(n - 1) :
                   TermGraph(graph.categories, IntVal(i), graph.linkage, None)
                       .sentential = IntVal(AbsoluteSlot(i, n))
            /\ TermGraph(graph.categories, None, graph.linkage, None)
                   .sentential = None
            /\ graph.sentential \in {None} \cup {IntVal(i) : i \in 0..(n - 1)}
            /\ Len(graph.decomps) = n /\ Len(graph.clens) = n
            /\ Len(graph.nodes) = NodesBefore(graph.decomps, n)
            /\ \A i \in 1..n :
                   /\ graph.clens[i] = NodesBefore(graph.decomps, i - 1)
                   /\ IF graph.categories[i].k = "None"
                      THEN graph.decomps[i] = None
                      ELSE LET d == graph.decomps[i]
                           IN  /\ d = decompose_category(
                                          graph.categories[i].v,
                                          graph.sentential = IntVal(i - 1))
                               /\ \A j \in 1..Len(d.nodes) :
                                      graph.nodes[graph.clens[i] + j] = d.nodes[j]
                               /\ graph.nodes[graph.clens[i] + d.target + 1]
                                      = d.nodes[d.target + 1]

\* A graph of three slots, the first absent and the second sentential: the
\* third slot starts after the second slot's two nodes.
C27_Witness ==
    /\ graph.k = "ok"
    /\ Len(graph.categories) = 3
    /\ graph.categories[1].k = "None"
    /\ graph.sentential = IntVal(1)
    /\ graph.clens = <<0, 0, 2>>
    /\ graph.decomps[2].nodes[graph.decomps[2].target + 1].positive
    /\ ~graph.nodes[3].positive

\* \x1.\x2. ... body: binders in the order of names, the first outermost.
RECURSIVE Lambda(_, _)
Lambda(names, body) ==
    IF names = <<>> THEN body
    ELSE [bound |-> Head(names), body |-> Lambda(Tail(names), body)]

\* f(a1)(a2)...: f applied to the arguments in order, the first innermost.
RECURSIVE Applied(_, _)
Applied(f, args) ==
    IF args = <<>> THEN f
    ELSE Applied([abstraction |-> f, argument |-> Head(args)], Tail(args))

\* What the scoping rule prescribes for the node of index idx of g, given
\* the terms of the nodes it refers to.
Scoped(g, idx) ==
    LET node  == g.nodes[idx + 1]
        own   == [name |-> g.labels[idx + 1]]
        kids  == [m \in 1..Len(node.children) |-> idx + node.children[m]]
    IN  IF node.positive
        THEN Lambda([m \in 1..Len(kids) |-> g.labels[kids[m] + 1]],
                    IF idx \in DOMAIN g.linkage
                    THEN _get_term(g, g.linkage[idx], 1).v
                    ELSE own)
        ELSE Applied(own, [m \in 1..Len(kids) |-> _get_term(g, kids[m], 1).v])

\* The node get_term(idx) starts from.
StartNode(g, idx) ==
    LET slot == IF idx.k = "None" THEN g.sentential.v ELSE idx.v
    IN  g.clens[slot + 1] + g.decomps[slot + 1].target

\* C28: scoping order of term extraction: at a positive node the linked
\* sub-term, or the node's own label as a free variable when the linkage has
\* no entry for it, is wrapped in one abstraction per child, the outermost
\* binding the label of the node of the first child (the offset decomposition
\* prepended last: the category's outermost slash) and the binders nesting
\* inward in children order; at a negative node the node's label is applied
\* to the terms of its children in children order, the first application
\* being to the outermost argument.
C28_ScopingOrder ==
    graph.k = "ok" =>
        /\ \A idx \in 0..(Len(graph.nodes) - 1) :
               _get_term(graph, idx, 1).k = "ok" =>
                   _get_term(graph, idx, 1).v = Scoped(graph, idx)
        /\ (term.k = "get_term" /\ term.r.k = "ok") =>
               term.r.v = Scoped(graph, StartNode(graph, term.idx))

\* The term of a positive verb (S\NP)/NP: the outermost binder is the label
\* of the node of its outer argument, which precedes the target node.
C28_Witness ==
    /\ graph.k = "ok"
    /\ term.k = "get_term" /\ term.r.k = "ok"
    /\ LET idx  == StartNode(graph, term.idx)
           node == graph.nodes[idx + 1]
       IN  /\ node.positive
           /\ node.children = <<-1, 1>>
           /\ term.r.v = [bound |-> graph.labels[idx],
                          body |-> [bound |-> graph.labels[idx + 2],
                                    body |-> [name |-> graph.labels[idx + 1]]]]

\* The term of a negative verb (S\NP)/NP whose arguments are linked to
\* nothing further: its label applied to the outer argument first.
C28_WitnessNegative ==
    /\ graph.k = "ok"
    /\ term.k = "get_term" /\ term.r.k = "ok"
    /\ LET idx  == StartNode(graph, term.idx)
           node == graph.nodes[idx + 1]
       IN  /\ ~node.positive
           /\ node.children = <<1, -1>>
           /\ term.r.v = Applied([name |-> graph.labels[idx + 1]],
                                 <<_get_term(graph, idx + 1, 1).v,
                                   _get_term(graph, idx - 1, 1).v>>)

-----------------------------------------------------------------------------
(* Properties of the interner's contents and of the labels *)

\* The tree a strict parse of s on an empty interner returns under either
\* associativity, as a set: empty when both parses fail.
StrictReadings(s, lambek) ==
    {r.v : r \in {x \in {Fresh(s, left_associative, lambek, TRUE) :
                             left_associative \in BOOLEAN} : x.k = "ok"}}

\* C29: interner consistency: in every interner state reached by from_str
\* calls, each entry (s, lambek) -> t has a key s that is a well-formed
\* category string and t is the tree a strict parse of s returns from an
\* empty interner with that lambek flag; and no call fails one of the
\* interner's sanity assertions.
C29_InternerConsistent ==
    /\ \A key \in DOMAIN INSTANCES :
           INSTANCES[key] \in StrictReadings(key[1], key[2])
    /\ last.k # AssertionError

\* C30: label uniqueness: in every constructed TermGraph the display labels
\* of distinct nodes are distinct, so that two different nodes never give
\* the same variable name in an extracted term.
C30_LabelsDistinct ==
    graph.k = "ok" =>
        \A i, j \in 1..Len(graph.labels) :
            i # j => graph.labels[i] # graph.labels[j]

====
